---- MODULE Spec2Model ----
(***************************************************************************)
(* A model of scripts/generate-snippets.py: the snippet scanner that       *)
(* groups sibling files by base name and recognised extension and writes   *)
(* one combined markdown file per group, rewriting a file only when its    *)
(* content changed.                                                        *)
(*                                                                         *)
(* Text is modelled by TLA+ strings (Len, SubSeq and \o act on them).      *)
(* Paths are POSIX paths.  An optional value is <<>> (Python's None) or    *)
(* <<v>>.  The file system maps every path of a finite universe to the     *)
(* optional byte content of the file at that path.                         *)
(***************************************************************************)
EXTENDS Integers, Sequences, FiniteSets, TLC

VARIABLES
    fs,         \* path -> optional bytes on disk
    pc,         \* position of generate(): idle, walk, folder, done, aborted
    todo,       \* directories os.walk has still to yield
    cur,        \* directory process_folder is working on
    found,      \* groups of the current folder still to emit, in dict order
    written,    \* paths opened for writing during the current run
    skipped,    \* the current run left out a directory os.walk could not list
    runs,       \* generate() calls started
    edits,      \* changes made to source files by the user
    dirty,      \* the user changed a file since the last run ended
    fsStart,    \* fs when the current run started
    fsPrev,     \* fs when the previous run started
    prevEnd,    \* how the previous run ended: none, done, skipped, aborted
    pstage,     \* pure-function harness: off, in, out
    pin,        \* pure-function harness: the input drawn
    pout        \* pure-function harness: the result computed

mainVars == <<fs, pc, todo, cur, found, written, skipped, runs, edits, dirty,
              fsStart, fsPrev, prevEnd>>
pureVars == <<pstage, pin, pout>>
vars == <<mainVars, pureVars>>

(***************************************************************************)
(* Bounds of the model.                                                    *)
(***************************************************************************)
MaxRuns == 2
MaxEdits == 1
MaxFiles == 3

(***************************************************************************)
(* Python values and string primitives.                                    *)
(***************************************************************************)
None == <<>>
Some(v) == <<v>>

Min(a, b) == IF a < b THEN a ELSE b
Max(a, b) == IF a > b THEN a ELSE b

\* s[i:j] for 0 <= i, 0 <= j : Python clamps both ends to len(s).
Slice(s, i, j) ==
    LET lo == Min(i, Len(s))
        hi == Min(j, Len(s))
    IN IF lo >= hi THEN "" ELSE SubSeq(s, lo + 1, hi)

\* s[i:]
SliceFrom(s, i) == Slice(s, i, Len(s))

\* s[:-n] for n > 0 : a negative end counts from the right, clamped at 0.
SliceDropRight(s, n) == Slice(s, 0, Max(Len(s) - n, 0))

startswith(s, p) == Len(p) <= Len(s) /\ Slice(s, 0, Len(p)) = p
endswith(s, p) == Len(p) <= Len(s) /\ Slice(s, Len(s) - Len(p), Len(s)) = p

\* The printable ASCII characters a name or a language can hold, in code
\* point order; str comparison in Python compares code points.
Ascii == " !\"#$%&'()*+,-./0123456789:;<=>?@ABCDEFGHIJKLMNOPQRSTUVWXYZ[\\]^_abcdefghijklmnopqrstuvwxyz{|}~"
Ord(c) == CHOOSE i \in 1..Len(Ascii) : SubSeq(Ascii, i, i) = c

RECURSIVE StrLess(_, _)
StrLess(a, b) ==
    IF b = "" THEN FALSE
    ELSE IF a = "" THEN TRUE
    ELSE LET x == Ord(SubSeq(a, 1, 1))
             y == Ord(SubSeq(b, 1, 1))
         IN IF x # y THEN x < y
            ELSE StrLess(SliceFrom(a, 1), SliceFrom(b, 1))

\* os.path.join(a, b) for a relative b.
join(a, b) == IF a = "" \/ endswith(a, "/") THEN a \o b ELSE a \o "/" \o b

RECURSIVE JoinLines(_)
\* "\n".join(lines)
JoinLines(lines) ==
    IF lines = <<>> THEN ""
    ELSE IF Len(lines) = 1 THEN lines[1]
    ELSE lines[1] \o "\n" \o JoinLines(Tail(lines))

\* sorted(items, key=lambda x: x[1]) : a stable insertion sort on the names.
RECURSIVE InsertByName(_, _)
InsertByName(x, sorted) ==
    IF sorted = <<>> THEN <<x>>
    ELSE IF StrLess(x[2], Head(sorted)[2]) THEN <<x>> \o sorted
    ELSE <<Head(sorted)>> \o InsertByName(x, Tail(sorted))

RECURSIVE SortedByName(_)
SortedByName(xs) ==
    IF xs = <<>> THEN <<>>
    ELSE InsertByName(xs[Len(xs)], SortedByName(SubSeq(xs, 1, Len(xs) - 1)))

\* sorted(keys, key=len, reverse=True) : stable, the longest first.
RECURSIVE InsertByLenDesc(_, _)
InsertByLenDesc(x, sorted) ==
    IF sorted = <<>> THEN <<x>>
    ELSE IF Len(x) > Len(Head(sorted)) THEN <<x>> \o sorted
    ELSE <<Head(sorted)>> \o InsertByLenDesc(x, Tail(sorted))

RECURSIVE SortedByLenDesc(_)
SortedByLenDesc(xs) ==
    IF xs = <<>> THEN <<>>
    ELSE InsertByLenDesc(xs[Len(xs)], SortedByLenDesc(SubSeq(xs, 1, Len(xs) - 1)))

(***************************************************************************)
(* Configuration.                                                          *)
(***************************************************************************)
\* dict items in insertion order: <<extension, language name>>
EXTENSION_MAPPING ==
    << <<".py", "Python">>,
       <<".cs", "C#">>,
       <<".kt", "Kotlin">>,
       <<".java", "Java">>,
       <<".go", "Go">>,
       <<".php", "PHP">>,
       <<".ts", "TypeScript">>,
       <<".schema.json", "JSON Schema">> >>

SYNTAX_MAPPING ==
    (".py" :> "python") @@ (".cs" :> "csharp") @@ (".kt" :> "kotlin") @@
    (".java" :> "java") @@ (".go" :> "go") @@ (".php" :> "php") @@
    (".ts" :> "typescript") @@ (".schema.json" :> "json")

COMBINED_EXT == ".md"

LANGUAGE_ORDER == SortedByName(EXTENSION_MAPPING)

Keys == [i \in 1..Len(EXTENSION_MAPPING) |-> EXTENSION_MAPPING[i][1]]
SORTED_EXTENSIONS == SortedByLenDesc(Keys)

\* abspath(join(dirname(abspath(__file__)), "..", "snippets")) for a checkout
\* at /sde-docs
snipets_path == "/sde-docs/snippets"


\* The fence of a code block is three backquotes; SANY does not lex a
\* backquote inside a string, so "~~~" stands for it: the tilde occurs
\* nowhere else in the generated text and nothing inspects the fence.
FENCE == "~~~"

\* The line separator of the platform (POSIX).
linesep == "\n"

(***************************************************************************)
(* path_to_snippet                                                         *)
(***************************************************************************)
\* Mutant: the separator after the root is not skipped.
path_to_snippet_keeps_separator(fname) ==
    IF ~startswith(fname, snipets_path) THEN None
    ELSE Some("snippets/" \o SliceFrom(fname, Len(snipets_path)))

path_to_snippet(fname) ==
    IF ~startswith(fname, snipets_path) THEN None
    ELSE Some("snippets/" \o SliceFrom(fname, Len(snipets_path) + 1))

\* An optional string as an f-string renders it.
Format(v) == IF v = None THEN "None" ELSE v[1]

(***************************************************************************)
(* write_if_changed                                                        *)
(***************************************************************************)
\* Text is converted a character at a time; the recursion halves the
\* range so that its depth stays logarithmic in the length.
RECURSIVE ReadRange(_, _, _)
ReadRange(bytes, lo, hi) ==
    IF lo > hi THEN ""
    ELSE IF lo = hi
         THEN LET c == SubSeq(bytes, lo, lo)
              IN IF c = "\r" THEN "\n"
                 ELSE IF c = "\n" /\ lo > 1 /\ SubSeq(bytes, lo - 1, lo - 1) = "\r"
                      THEN ""
                      ELSE c
         ELSE LET mid == (lo + hi) \div 2
              IN ReadRange(bytes, lo, mid) \o ReadRange(bytes, mid + 1, hi)

\* f.read() of a file opened with mode "r": universal newlines turn "\r\n"
\* and a lone "\r" into "\n".
ReadText(bytes) == ReadRange(bytes, 1, Len(bytes))

RECURSIVE WriteRange(_, _, _)
WriteRange(text, lo, hi) ==
    IF lo > hi THEN ""
    ELSE IF lo = hi
         THEN IF SubSeq(text, lo, lo) = "\n" THEN linesep ELSE SubSeq(text, lo, lo)
         ELSE LET mid == (lo + hi) \div 2
              IN WriteRange(text, lo, mid) \o WriteRange(text, mid + 1, hi)

\* f.write() to a file opened with mode "w": "\n" becomes os.linesep.
WriteText(text) == WriteRange(text, 1, Len(text))

\* Mutant: the previous content is never read.
old_content_never_read(f, fname) == None

\* lines 61-65: the previous content, None when the file is missing.
old_content(f, fname) ==
    IF f[fname] = None THEN None ELSE Some(ReadText(f[fname][1]))

\* Mutant: the comparison is dropped, every call writes.
changed_always(f, fname, content) == TRUE

\* Mutant: only a missing file counts as changed.
changed_if_missing(f, fname, content) == f[fname] = None

\* line 67
changed(f, fname, content) == old_content(f, fname) # Some(content)

\* lines 67-69
write_if_changed(f, fname, content) ==
    IF changed(f, fname, content)
    THEN [f EXCEPT ![fname] = Some(WriteText(content))]
    ELSE f

(***************************************************************************)
(* process_folder                                                          *)
(***************************************************************************)
RECURSIVE FirstMatch(_, _)
\* lines 77-81: the first extension of exts that fname ends with.
FirstMatch(fname, exts) ==
    IF exts = <<>> THEN None
    ELSE IF endswith(fname, Head(exts)) THEN Some(Head(exts))
    ELSE FirstMatch(fname, Tail(exts))

RECURSIVE LastDot(_, _)
LastDot(fname, i) ==
    IF i = 0 THEN 0
    ELSE IF SubSeq(fname, i, i) = "." THEN i ELSE LastDot(fname, i - 1)

\* os.path.splitext(fname)[1]: from the last dot, none for a leading dot.
splitext_ext(fname) ==
    LET i == LastDot(fname, Len(fname))
    IN IF i <= 1 THEN "" ELSE SliceFrom(fname, i - 1)

\* Mutant: the extension is taken with splitext and looked up in the table.
matched_ext_splitext(fname) ==
    IF \E i \in 1..Len(SORTED_EXTENSIONS) : SORTED_EXTENSIONS[i] = splitext_ext(fname)
    THEN Some(splitext_ext(fname)) ELSE None

\* Mutant: a name that ends with no extension of the table is grouped under
\* whatever follows its last dot.
matched_ext_or_any(fname) ==
    IF FirstMatch(fname, SORTED_EXTENSIONS) # None
    THEN FirstMatch(fname, SORTED_EXTENSIONS)
    ELSE IF splitext_ext(fname) # "" THEN Some(splitext_ext(fname)) ELSE None

matched_ext(fname) == FirstMatch(fname, SORTED_EXTENSIONS)

\* line 84
base_of(fname, ext) == SliceDropRight(fname, Len(ext))

\* line 85: found.setdefault(base, []).append(ext) on a dict kept as the
\* sequence of its <<key, value>> items in insertion order.
SetDefaultAppend(d, base, ext) ==
    IF \E i \in 1..Len(d) : d[i][1] = base
    THEN [i \in 1..Len(d) |->
            IF d[i][1] = base THEN <<base, Append(d[i][2], ext)>> ELSE d[i]]
    ELSE Append(d, <<base, <<ext>> >>)

RECURSIVE Group(_, _)
\* lines 74-85
Group(files, d) ==
    IF files = <<>> THEN d
    ELSE LET fname == Head(files)
             m == matched_ext(fname)
         IN IF m = None THEN Group(Tail(files), d)
            ELSE Group(Tail(files), SetDefaultAppend(d, base_of(fname, m[1]), m[1]))

found_of(files) == Group(files, <<>>)

InSeq(x, xs) == \E i \in 1..Len(xs) : xs[i] = x

\* lines 91-99: the five lines of one tab block.
Block(path, base, ext, lang) ==
    << "=== \"" \o lang \o "\"",
       "",
       "    " \o FENCE \o SYNTAX_MAPPING[ext],
       "    --8<-- \"" \o Format(path_to_snippet(join(path, base \o ext))) \o "\"",
       "    " \o FENCE >>

RECURSIVE BlocksInScanOrder(_, _, _, _)
\* Mutant: the blocks follow the order the extensions were found in.
BlocksInScanOrder(path, base, exts, order) ==
    IF exts = <<>> THEN <<>>
    ELSE LET ext == Head(exts)
             i == CHOOSE k \in 1..Len(order) : order[k][1] = ext
         IN Block(path, base, ext, order[i][2])
            \o BlocksInScanOrder(path, base, Tail(exts), order)

RECURSIVE Blocks(_, _, _, _)
\* lines 88-100
Blocks(path, base, exts, order) ==
    IF order = <<>> THEN <<>>
    ELSE LET ext == Head(order)[1]
             lang == Head(order)[2]
             rest == Blocks(path, base, exts, Tail(order))
         IN IF InSeq(ext, exts) THEN Block(path, base, ext, lang) \o rest ELSE rest

\* lines 88-102: the text handed to write_if_changed.
content_of(path, base, exts) ==
    JoinLines(Append(Blocks(path, base, exts, LANGUAGE_ORDER), ""))

\* line 87
combined_name(path, base) == join(path, base \o COMBINED_EXT)

RECURSIVE EmitAll(_, _, _)
\* lines 86-102
EmitAll(f, path, groups) ==
    IF groups = <<>> THEN f
    ELSE EmitAll(write_if_changed(f, combined_name(path, Head(groups)[1]),
                                  content_of(path, Head(groups)[1], Head(groups)[2])),
                 path, Tail(groups))

\* lines 73-102
process_folder(f, path, files) == EmitAll(f, path, found_of(files))


(***************************************************************************)
(* The snippet tree of the model: the root and one sub-directory, and the  *)
(* names a directory can hold.                                             *)
(***************************************************************************)
Root == snipets_path
Api == join(snipets_path, "api")

\* os.walk yields top-down: the root, then its sub-directory.
WalkOrder == <<Root, Api>>

EntryNames(d) ==
    IF d = Root
    THEN <<"demo.go", "demo.md", "demo.py", "notes.md", "notes.txt",
           "util.java", "util.md">>
    ELSE <<"example.md", "example.schema.json">>

\* The snippets the user adds, removes and edits.
SnippetNames(d) ==
    IF d = Root THEN {"demo.go", "demo.py", "util.java"}
    ELSE {"example.schema.json"}

\* A file that is no snippet and is always there.
NotesPath == join(Root, "notes.txt")

Range(xs) == {xs[i] : i \in 1..Len(xs)}
DirSet == Range(WalkOrder)
Paths == UNION {{join(d, n) : n \in Range(EntryNames(d))} : d \in DirSet}
SnippetPaths == UNION {{join(d, n) : n \in SnippetNames(d)} : d \in DirSet}

Reverse(xs) == [i \in 1..Len(xs) |-> xs[Len(xs) + 1 - i]]

RECURSIVE Present(_, _, _)
\* The names of xs that exist in directory d of f, in the order of xs.
Present(f, d, xs) ==
    IF xs = <<>> THEN <<>>
    ELSE IF f[join(d, Head(xs))] # None
         THEN <<Head(xs)>> \o Present(f, d, Tail(xs))
         ELSE Present(f, d, Tail(xs))

\* The file names os.walk reports for d: the order is the file system's.
ScanOrders == {"forward", "backward"}
listing(f, d, order) ==
    IF order = "forward" THEN Present(f, d, EntryNames(d))
    ELSE Present(f, d, Reverse(EntryNames(d)))

\* What a source file can hold.
V1 == "v1\n"
V2 == "v2\n"

RECURSIVE CrLfRange(_, _, _)
CrLfRange(text, lo, hi) ==
    IF lo > hi THEN ""
    ELSE IF lo = hi
         THEN IF SubSeq(text, lo, lo) = "\n" THEN "\r\n" ELSE SubSeq(text, lo, lo)
         ELSE LET mid == (lo + hi) \div 2
              IN CrLfRange(text, lo, mid) \o CrLfRange(text, mid + 1, hi)

\* The same text with Windows line ends.
ToCrLf(text) == CrLfRange(text, 1, Len(text))

\* The groups of directory d in f, whatever the scan order.
groups_in(f, d) == found_of(listing(f, d, "forward"))

\* A combined file left by hand or by an earlier tool: some other text, or
\* the text of its group with Windows line ends (a checkout that converts
\* line ends).
Leftovers(f) ==
    UNION {
        UNION {{<<combined_name(d, groups_in(f, d)[i][1]), "stale\n">>,
                <<combined_name(d, groups_in(f, d)[i][1]),
                  ToCrLf(content_of(d, groups_in(f, d)[i][1], groups_in(f, d)[i][2]))>>}
               : i \in 1..Len(groups_in(f, d))}
        : d \in DirSet}

NoFiles == [p \in Paths |-> None]

MainIdle ==
    /\ pc = "idle"
    /\ todo = <<>>
    /\ cur = ""
    /\ found = <<>>
    /\ written = {}
    /\ skipped = FALSE
    /\ runs = 0
    /\ edits = 0
    /\ dirty = FALSE
    /\ fsStart = fs
    /\ fsPrev = fs
    /\ prevEnd = "none"

Init ==
    /\ \E S \in SUBSET SnippetPaths :
         LET f0 == [p \in Paths |->
                      IF p \in S \cup {NotesPath} THEN Some(V1) ELSE None]
         IN \/ fs = f0
            \/ \E l \in Leftovers(f0) : fs = [f0 EXCEPT ![l[1]] = Some(l[2])]
    /\ MainIdle
    /\ pstage = "off"
    /\ pin = None
    /\ pout = None

(***************************************************************************)
(* generate(), one step per directory os.walk yields and per group         *)
(* process_folder emits.                                                   *)
(***************************************************************************)
Ended == pc \in {"done", "aborted"}

\* line 105: generate() is called.
Generate ==
    /\ pc = "idle" \/ Ended
    /\ runs < MaxRuns
    /\ runs' = runs + 1
    /\ pc' = "walk"
    /\ todo' = WalkOrder
    /\ cur' = ""
    /\ found' = <<>>
    /\ written' = {}
    /\ skipped' = FALSE
    /\ fsStart' = fs
    /\ fsPrev' = fsStart
    /\ prevEnd' = IF pc = "idle" THEN "none"
                  ELSE IF pc = "aborted" THEN "aborted"
                  ELSE IF skipped THEN "skipped" ELSE "done"
    /\ dirty' = FALSE
    /\ UNCHANGED <<fs, edits, pureVars>>

\* lines 106-107, 74-85: os.walk yields the next directory with its files in
\* the order the file system reports; process_folder groups them.
Walk(order) ==
    /\ pc = "walk"
    /\ todo # <<>>
    /\ cur' = Head(todo)
    /\ todo' = Tail(todo)
    /\ found' = found_of(listing(fs, Head(todo), order))
    /\ pc' = IF found' = <<>> THEN "walk" ELSE "folder"
    /\ UNCHANGED <<fs, written, skipped, runs, edits, dirty, fsStart, fsPrev, prevEnd, pureVars>>

\* line 106: os.walk without onerror ignores a directory it cannot list and
\* does not descend into it.
WalkSkip ==
    /\ pc = "walk"
    /\ todo # <<>>
    /\ todo' = SelectSeq(Tail(todo), LAMBDA d : ~startswith(d, Head(todo) \o "/"))
    /\ skipped' = TRUE
    /\ UNCHANGED <<fs, pc, cur, found, written, runs, edits, dirty, fsStart, fsPrev, prevEnd, pureVars>>

\* line 106: os.walk is exhausted, generate() returns.
WalkEnd ==
    /\ pc = "walk"
    /\ todo = <<>>
    /\ pc' = "done"
    /\ UNCHANGED <<fs, todo, cur, found, written, skipped, runs, edits, dirty, fsStart, fsPrev, prevEnd, pureVars>>

emit_name == combined_name(cur, Head(found)[1])
emit_content == content_of(cur, Head(found)[1], Head(found)[2])

\* lines 86-102: the next group's combined file is assembled and handed to
\* write_if_changed.
Emit ==
    /\ pc = "folder"
    /\ LET fname == emit_name
           content == emit_content
       IN /\ fs' = write_if_changed(fs, fname, content)
          /\ written' = IF changed(fs, fname, content)
                        THEN written \cup {fname} ELSE written
    /\ found' = Tail(found)
    /\ pc' = IF Tail(found) = <<>> THEN "walk" ELSE "folder"
    /\ UNCHANGED <<todo, cur, skipped, runs, edits, dirty, fsStart, fsPrev, prevEnd, pureVars>>

\* lines 62-63: reading the previous content raises something other than
\* FileNotFoundError; nothing catches it.
EmitReadFails ==
    /\ pc = "folder"
    /\ fs[emit_name] # None
    /\ pc' = "aborted"
    /\ UNCHANGED <<fs, todo, cur, found, written, skipped, runs, edits, dirty, fsStart, fsPrev, prevEnd, pureVars>>

\* line 68: open(fname, "w") raises; the file is as it was.
EmitOpenFails ==
    /\ pc = "folder"
    /\ changed(fs, emit_name, emit_content)
    /\ pc' = "aborted"
    /\ UNCHANGED <<fs, todo, cur, found, written, skipped, runs, edits, dirty, fsStart, fsPrev, prevEnd, pureVars>>

\* How much of a text reaches the disk when the write fails: nothing, half,
\* or all but the last character.
Cuts(text) == {0, Len(text) \div 2, Len(text) - 1}

\* lines 68-69: the file is truncated by open and the write fails part-way.
EmitWriteFails ==
    /\ pc = "folder"
    /\ LET fname == emit_name
           content == emit_content
       IN /\ changed(fs, fname, content)
          /\ \E cut \in Cuts(content) :
               fs' = [fs EXCEPT ![fname] = Some(Slice(WriteText(content), 0, cut))]
          /\ written' = written \cup {fname}
    /\ pc' = "aborted"
    /\ UNCHANGED <<todo, cur, found, skipped, runs, edits, dirty, fsStart, fsPrev, prevEnd, pureVars>>

(***************************************************************************)
(* The user, between two runs.                                             *)
(***************************************************************************)
Between == Ended /\ runs < MaxRuns /\ edits < MaxEdits

EditSource(p) ==
    /\ Between
    /\ fs[p] = Some(V1)
    /\ fs' = [fs EXCEPT ![p] = Some(V2)]
    /\ edits' = edits + 1
    /\ dirty' = TRUE
    /\ UNCHANGED <<pc, todo, cur, found, written, skipped, runs, fsStart, fsPrev, prevEnd, pureVars>>

AddSource(p) ==
    /\ Between
    /\ fs[p] = None
    /\ fs' = [fs EXCEPT ![p] = Some(V1)]
    /\ edits' = edits + 1
    /\ dirty' = TRUE
    /\ UNCHANGED <<pc, todo, cur, found, written, skipped, runs, fsStart, fsPrev, prevEnd, pureVars>>

RemoveSource(p) ==
    /\ Between
    /\ fs[p] # None
    /\ fs' = [fs EXCEPT ![p] = None]
    /\ edits' = edits + 1
    /\ dirty' = TRUE
    /\ UNCHANGED <<pc, todo, cur, found, written, skipped, runs, fsStart, fsPrev, prevEnd, pureVars>>

\* Runs without I/O failure, and the user's changes between them.
Next ==
    \/ Generate
    \/ \E order \in ScanOrders : Walk(order)
    \/ WalkEnd
    \/ Emit
    \/ \E p \in SnippetPaths : EditSource(p)
    \/ \E p \in SnippetPaths : AddSource(p)
    \/ \E p \in SnippetPaths : RemoveSource(p)

Spec == Init /\ [][Next]_vars

\* Runs that an I/O failure can abort or shorten, on unchanged sources.
NextFault ==
    \/ Generate
    \/ \E order \in ScanOrders : Walk(order)
    \/ WalkSkip
    \/ WalkEnd
    \/ Emit
    \/ EmitReadFails
    \/ EmitOpenFails
    \/ EmitWriteFails

SpecFault == Init /\ [][NextFault]_vars


(***************************************************************************)
(* The functions on their own: an input is drawn, the function is applied. *)
(***************************************************************************)
\* Absolute paths at, under, beside and away from the snippets root.
PathInputs ==
    {pre \o tail :
        pre \in {snipets_path, snipets_path \o "/api", snipets_path \o "-old",
                 snipets_path \o "2", "/sde-docs/snippet", "/sde-docs",
                 "/sde-docs/scripts", "/srv/snippets", "/"},
        tail \in {"", "/demo.py", "/api/demo.go", "/example.schema.json",
                  "/a/b/c.ts", "/notes.txt"}}

\* Names a directory can report.
FolderNames ==
    {"demo.py", "demo.go", "demo.schema.json", "demo.json", "demo.go.py",
     ".py", "notes.txt", "demo.md"}

Injective(xs) == \A i, j \in 1..Len(xs) : xs[i] = xs[j] => i = j

\* The listings of at most MaxFiles names.
Listings ==
    UNION {{xs \in [1..k -> FolderNames] : Injective(xs)} : k \in 0..MaxFiles}

\* The combined files the names of FolderNames can give rise to.
FolderCombined ==
    {base_of(n, SORTED_EXTENSIONS[i]) \o COMBINED_EXT :
        n \in FolderNames, i \in 1..Len(SORTED_EXTENSIONS)}

\* Directory d holding exactly the files listed.
FolderFs(d, files) ==
    [p \in {join(d, n) : n \in FolderNames \cup FolderCombined} |->
        IF \E i \in 1..Len(files) : join(d, files[i]) = p
        THEN IF endswith(p, COMBINED_EXT) THEN Some("stale\n") ELSE Some(V1)
        ELSE None]

\* Texts handed to write_if_changed, and what the file can hold before.
WriteContents ==
    {"", "x\n", content_of(Root, "demo", <<".py">>),
     content_of(Root, "demo", <<".py", ".go">>),
     content_of(Api, "example", <<".schema.json">>)}

WriteOlds(content) ==
    {None} \cup {Some(o) : o \in WriteContents \cup
                    {"stale\n", ToCrLf(content), Slice(content, 0, Len(content) \div 2)}}

WriteTarget == join(Root, "demo.md")

InitPure ==
    /\ fs = NoFiles
    /\ MainIdle
    /\ pstage = "in"
    /\ pout = None
    /\ \/ \E x \in PathInputs : pin = [kind |-> "path", fname |-> x]
       \/ \E d \in DirSet, xs \in Listings :
            pin = [kind |-> "folder", dir |-> d, files |-> xs, f |-> FolderFs(d, xs)]
       \/ \E c \in WriteContents : \E o \in WriteOlds(c) :
            pin = [kind |-> "write", fname |-> WriteTarget, content |-> c,
                   f |-> [p \in {WriteTarget} |-> o]]

ApplyPath ==
    /\ pstage = "in"
    /\ pin.kind = "path"
    /\ pout' = path_to_snippet(pin.fname)
    /\ pstage' = "out"
    /\ UNCHANGED <<mainVars, pin>>

ApplyFolder ==
    /\ pstage = "in"
    /\ pin.kind = "folder"
    /\ pout' = [found |-> found_of(pin.files),
                fs |-> process_folder(pin.f, pin.dir, pin.files)]
    /\ pstage' = "out"
    /\ UNCHANGED <<mainVars, pin>>

ApplyWrite ==
    /\ pstage = "in"
    /\ pin.kind = "write"
    /\ pout' = [wrote |-> changed(pin.f, pin.fname, pin.content),
                fs |-> write_if_changed(pin.f, pin.fname, pin.content)]
    /\ pstage' = "out"
    /\ UNCHANGED <<mainVars, pin>>

NextPure == ApplyPath \/ ApplyFolder \/ ApplyWrite

SpecPure == InitPure /\ [][NextPure]_vars


(***************************************************************************)
(* Vocabulary of the claims, stated without the operators of the code.     *)
(***************************************************************************)
TableExts == {EXTENSION_MAPPING[i][1] : i \in 1..Len(EXTENSION_MAPPING)}
LanguageOf(e) ==
    EXTENSION_MAPPING[CHOOSE i \in 1..Len(EXTENSION_MAPPING) :
                        EXTENSION_MAPPING[i][1] = e][2]

\* The table extensions that are a suffix of name n, and the longest one.
SuffixesOf(n) == {e \in TableExts : endswith(n, e)}
Recognized(n) == SuffixesOf(n) # {}
LongestOf(n) == CHOOSE e \in SuffixesOf(n) : \A e2 \in SuffixesOf(n) : Len(e2) <= Len(e)
BaseOf(n) == Slice(n, 0, Len(n) - Len(LongestOf(n)))

DirOf(p) == CHOOSE d \in DirSet : \E n \in Range(EntryNames(d)) : d \o "/" \o n = p
NameOf(p) == SliceFrom(p, Len(DirOf(p)) + 1)
PathsIn(d) == {d \o "/" \o n : n \in Range(EntryNames(d))}

\* The recognised files of directory d in f, its bases, and the extensions
\* present for a base.
RecognizedIn(f, d) ==
    {n \in Range(EntryNames(d)) : f[d \o "/" \o n] # None /\ Recognized(n)}
BasesIn(f, d) == {BaseOf(n) : n \in RecognizedIn(f, d)}
VariantsOf(f, d, b) == {LongestOf(n) : n \in {m \in RecognizedIn(f, d) : BaseOf(m) = b}}
CombinedPath(d, b) == d \o "/" \o b \o ".md"
GroupCombined(f) == UNION {{CombinedPath(d, b) : b \in BasesIn(f, d)} : d \in DirSet}

\* The files the user owns: everything but the combined files.
UserPaths == SnippetPaths \cup {NotesPath}
SameSources(f, g) == \A p \in UserPaths : f[p] = g[p]

\* Some variant file of base b in d differs between the last two runs.
GroupTouched(d, b) ==
    \E n \in SnippetNames(d) :
        /\ Recognized(n) /\ BaseOf(n) = b
        /\ fsPrev[d \o "/" \o n] # fsStart[d \o "/" \o n]

SecondRunDone == pc = "done" /\ ~dirty /\ prevEnd = "done"

(***************************************************************************)
(* C1: a second run of generate() on unchanged sources writes nothing and  *)
(* leaves every file as it was.                                            *)
(***************************************************************************)
\* C1: a completed run that follows a completed run on the same sources
\* writes no file and leaves the file system as it found it.
C1_Idempotent ==
    (SecondRunDone /\ SameSources(fsPrev, fsStart))
        => (written = {} /\ fs = fsStart)

\* C1 witness: a second run has completed on the sources of a first run that
\* wrote combined files, two of them in one directory.
C1_Witness ==
    /\ SecondRunDone
    /\ SameSources(fsPrev, fsStart)
    /\ fsStart # fsPrev
    /\ \E d \in DirSet : Cardinality(BasesIn(fs, d)) >= 2

AtOrBelowRoot(x) == x = snipets_path \/ startswith(x, snipets_path \o "/")

\* C3: a path that is neither the root nor below it yields None.
C3_OutsideIsNone ==
    (pstage = "out" /\ pin.kind = "path" /\ ~AtOrBelowRoot(pin.fname))
        => pout = None

(***************************************************************************)
(* C4: every file name is grouped under the longest table extension that   *)
(* is a suffix of it, with the name less that extension as base, and a name*)
(* no table extension ends is in no group.                                 *)
(***************************************************************************)
EntryPairs(groups) ==
    UNION {{<<groups[i][1], groups[i][2][j]>> : j \in 1..Len(groups[i][2])}
           : i \in 1..Len(groups)}

\* C4: the groups hold exactly one entry per recognised name, under its
\* longest matching extension and the base left of it; other names are absent.
C4_LongestExtension ==
    (pstage = "out" /\ pin.kind = "folder") =>
        LET pairs == EntryPairs(pout.found)
            names == Range(pin.files)
        IN /\ \A n \in names :
                IF Recognized(n)
                THEN /\ <<BaseOf(n), LongestOf(n)>> \in pairs
                     /\ \A pr \in pairs :
                          pr[1] \o pr[2] = n => pr = <<BaseOf(n), LongestOf(n)>>
                ELSE \A pr \in pairs : pr[1] \o pr[2] # n
           /\ \A pr \in pairs : pr[1] \o pr[2] \in names
           /\ \A i, j \in 1..Len(pout.found) :
                pout.found[i][1] = pout.found[j][1] => i = j

\* C4 witness: demo.schema.json, demo.json and demo.py were listed and grouped.
C4_Witness ==
    /\ pstage = "out" /\ pin.kind = "folder"
    /\ {"demo.schema.json", "demo.json", "demo.py"} \subseteq Range(pin.files)
    /\ EntryPairs(pout.found) = {<<"demo", ".schema.json">>, <<"demo", ".py">>}

(***************************************************************************)
(* C5: after generate() completes, every base with a recognised file in a  *)
(* directory has <base>.md there, holding one tab block per extension      *)
(* present, in the order of the language names, and ending in one newline. *)
(***************************************************************************)
\* The path of directory d below the root, with a closing slash.
RelDir(d) == IF d = snipets_path THEN "" ELSE SliceFrom(d, Len(snipets_path) + 1) \o "/"

TabBlock(d, b, e) ==
    "=== \"" \o LanguageOf(e) \o "\"\n"
    \o "\n"
    \o "    " \o FENCE \o SYNTAX_MAPPING[e] \o "\n"
    \o "    --8<-- \"snippets/" \o RelDir(d) \o b \o e \o "\"\n"
    \o "    " \o FENCE \o "\n"

\* The extensions of E, the language names ascending.
ByLanguageName(E) ==
    CHOOSE xs \in [1..Cardinality(E) -> E] :
        \A i, j \in 1..Cardinality(E) :
            i < j => StrLess(LanguageOf(xs[i]), LanguageOf(xs[j]))

RECURSIVE TabBlocks(_, _, _)
TabBlocks(d, b, xs) ==
    IF xs = <<>> THEN "" ELSE TabBlock(d, b, Head(xs)) \o TabBlocks(d, b, Tail(xs))

ExpectedText(f, d, b) == TabBlocks(d, b, ByLanguageName(VariantsOf(f, d, b)))

RunComplete == pc = "done" /\ ~dirty /\ ~skipped

\* C5: once a run has completed, each base of each directory has its combined
\* file with exactly the expected text.
C5_Postcondition ==
    RunComplete =>
        \A d \in DirSet : \A b \in BasesIn(fs, d) :
            fs[CombinedPath(d, b)] = Some(ExpectedText(fs, d, b))

\* Where the postcondition of C5 does hold: the runs that started with no combined file whose text
\* differs from the expected one in its line ends only.
NoConvertedLineEnds(f) ==
    \A d \in DirSet : \A b \in BasesIn(f, d) :
        f[CombinedPath(d, b)] # Some(ToCrLf(ExpectedText(f, d, b)))

C5_PostconditionUnlessConverted ==
    (RunComplete /\ NoConvertedLineEnds(fsStart)) =>
        \A d \in DirSet : \A b \in BasesIn(fs, d) :
            fs[CombinedPath(d, b)] = Some(ExpectedText(fs, d, b))

(***************************************************************************)
(* C6: process_folder produces the same combined files with the same       *)
(* content whatever the order in which the directory entries are reported. *)
(***************************************************************************)
PermutationsOf(xs) ==
    {ys \in [1..Len(xs) -> Range(xs)] : Injective(ys)}

\* C6: process_folder on any permutation of the listing gives the same files.
C6_ScanOrderIrrelevant ==
    (pstage = "out" /\ pin.kind = "folder") =>
        \A ys \in PermutationsOf(pin.files) :
            process_folder(pin.f, pin.dir, ys) = pout.fs

\* C6 witness: demo.py was reported before demo.go and the combined file has
\* Go before Python.
C6_Witness ==
    /\ pstage = "out" /\ pin.kind = "folder"
    /\ pin.files = <<"demo.py", "notes.txt", "demo.go">>
    /\ pout.fs[CombinedPath(pin.dir, "demo")]
         = Some(TabBlock(pin.dir, "demo", ".go") \o TabBlock(pin.dir, "demo", ".py"))

(***************************************************************************)
(* C7: write_if_changed writes exactly when the file is missing or holds   *)
(* something other than the new content, and afterwards the file holds     *)
(* exactly the new content.                                                *)
(***************************************************************************)
\* C7: a write happens exactly when the file is missing or its bytes differ
\* from the content, and the file then holds the content.
C7_WriteIffDiffers ==
    (pstage = "out" /\ pin.kind = "write") =>
        /\ pout.wrote <=> (pin.f[pin.fname] = None \/ pin.f[pin.fname] # Some(pin.content))
        /\ pout.fs[pin.fname] = Some(pin.content)

(***************************************************************************)
(* C8: generate() creates or overwrites only <base>.md files of the groups *)
(* of a directory; source snippets, files with an unrecognised extension   *)
(* that exist and directories without a matching file stay as they were,   *)
(* and nothing is deleted.                                                 *)
(***************************************************************************)
Running == pc \in {"walk", "folder"}

FrameCommon ==
    /\ written \subseteq GroupCombined(fsStart)
    /\ \A p \in Paths : fs[p] # fsStart[p] => p \in written
    /\ \A p \in SnippetPaths : fs[p] = fsStart[p]
    /\ \A p \in Paths : fsStart[p] # None => fs[p] # None
    /\ \A d \in DirSet :
         BasesIn(fsStart, d) = {} => \A p \in PathsIn(d) : fs[p] = fsStart[p]

\* C8 as claimed: besides the frame, every existing file with an unrecognised
\* extension keeps its content.
C8_Frame ==
    Running =>
        /\ FrameCommon
        /\ \A p \in Paths :
             (fsStart[p] # None /\ ~Recognized(NameOf(p))) => fs[p] = fsStart[p]

\* C8 amended: a file with an unrecognised extension stays as it was
\* unless it is the <base>.md of a group of its directory.
C8_FrameAmended ==
    Running =>
        /\ FrameCommon
        /\ \A p \in Paths \ GroupCombined(fsStart) :
             ~Recognized(NameOf(p)) => fs[p] = fsStart[p]

\* C8 witness: a run overwrote a stale demo.md, created util.md and left the
\* sub-directory, which has no matching file, alone.
C8_Witness ==
    /\ pc = "walk" /\ todo = <<>>
    /\ BasesIn(fsStart, Api) = {}
    /\ fsStart[CombinedPath(Root, "demo")] = Some("stale\n")
    /\ CombinedPath(Root, "demo") \in written
    /\ fsStart[CombinedPath(Root, "util")] = None
    /\ CombinedPath(Root, "util") \in written

(***************************************************************************)
(* C9: after a run that an I/O failure aborted, a run that completes on    *)
(* the same sources leaves the files as an uninterrupted run from the      *)
(* state before the aborted run would have.                                *)
(***************************************************************************)
RECURSIVE Uninterrupted(_, _)
Uninterrupted(f, dirs) ==
    IF dirs = <<>> THEN f
    ELSE Uninterrupted(process_folder(f, Head(dirs), listing(f, Head(dirs), "forward")),
                       Tail(dirs))

\* C9: the completed run after an aborted one ends in the state an
\* uninterrupted run from before the aborted one reaches.
C9_RecoveryByRerun ==
    (RunComplete /\ prevEnd = "aborted") => fs = Uninterrupted(fsPrev, WalkOrder)

\* C9 witness: the aborted run created one combined file and left another,
\* stale before, partly written; the next run completed.
C9_Witness ==
    /\ RunComplete /\ prevEnd = "aborted"
    /\ \E p \in Paths :
        /\ fsPrev[p] = Some("stale\n")
        /\ fsStart[p] \notin {fsPrev[p], fs[p]}
        /\ fsStart[p] # Some("")
    /\ \E q \in Paths : fsPrev[q] = None /\ fsStart[q] # None /\ fsStart[q] = fs[q]

(***************************************************************************)
(* C10: every include directive of a combined file written by generate()   *)
(* names, relative to the snippets root, a source file <base><ext> that    *)
(* exists beside the combined file; None never stands in a directive.      *)
(***************************************************************************)
NewlinesOf(text) == {i \in 1..Len(text) : SubSeq(text, i, i) = "\n"}

\* The lines of a text, each without its newline.
LinesOf(text) ==
    LET ends == NewlinesOf(text)
        Before(i) == IF \E j \in ends : j < i
                     THEN CHOOSE j \in ends : j < i /\ \A k \in ends : k < i => k <= j
                     ELSE 0
    IN {Slice(text, Before(i), i - 1) : i \in ends}

Directive == "    --8<-- "
DirectivesOf(text) == {l \in LinesOf(text) : startswith(l, Directive)}

\* C10: each directive of a written combined file reads
\* --8<-- "snippets/<dir below root><name>" for a recognised file beside it.
C10_DirectivesWellFormed ==
    (pc \in {"walk", "folder"} \/ (pc = "done" /\ ~dirty)) =>
    \A p \in written :
        LET d == DirOf(p)
            lines == DirectivesOf(fs[p][1])
        IN /\ lines # {}
           /\ \A l \in lines :
                /\ l # Directive \o "\"None\""
                /\ \E n \in RecognizedIn(fs, d) :
                     /\ CombinedPath(d, BaseOf(n)) = p
                     /\ l = Directive \o "\"snippets/" \o RelDir(d) \o n \o "\""

\* C10 witness: a run wrote a combined file in the root, with two directives,
\* and one in the sub-directory.
C10_Witness ==
    /\ pc = "done" /\ ~dirty
    /\ CombinedPath(Root, "demo") \in written
    /\ CombinedPath(Api, "example") \in written
    /\ Cardinality(DirectivesOf(fs[CombinedPath(Root, "demo")][1])) = 2

====
